---- MODULE Spec2Model ----
(***************************************************************************)
(* A model of Serialib: the serial port class ubn::serialib of             *)
(* serialib.hpp (open, close, the three mutexes, async_read, terminal)     *)
(* and the CRC engines:                                                    *)
(*   - the generic engine of serialib.hpp (generateCRCTable,               *)
(*     generateCRCCode, crc_gen over enum CRCTypes),                       *)
(*   - the 8-bit engine of authlib.hpp (initCRCTable, generateCRCCode,     *)
(*     crc_gen over enum crc_types),                                       *)
(*   - the older 8-bit engine kept in serialib.hpp (generateCRC8Table,     *)
(*     getCRC8Code, crc8_gen over enum crc8_types).                        *)
(*                                                                         *)
(* A value of a C++ integer type is the set of the positions of its 1      *)
(* bits (bit 0 is the least significant one), so that 32- and 64-bit       *)
(* registers are exact.  Every operator that models a C++ expression       *)
(* names the width of the type the expression is evaluated in.             *)
(***************************************************************************)
EXTENDS Integers, FiniteSets, Sequences, TLC

VARIABLES
    pc,           \* pc[t]: where thread t is in its call of crc_gen / crc8_gen
    args,         \* args[t]: the call thread t makes: function, variant, overload, buffer
    crc_code,     \* crc_code[t]: the running register (a local of the call)
    _data,        \* _data[t]: offset of the pointer _data from the start of the buffer
    _size,        \* _size[t]: the std::size_t counter _size (64 bits)
    result,       \* result[t]: the value the call returned
    crc8_table0,  \* content of crc_table[0], which generateCRC8Table never writes
    rev,          \* frame of a caller that applies binaryReverse twice
    inst,         \* frame of a caller that assembles a parameter set or builds a table
    m_fd,         \* serialib::m_fd, the descriptor the object keeps
    m_device,     \* serialib::m_device, "" being the empty string_view
    m_baudrates,  \* serialib::m_baudrates
    m_opt,        \* serialib::m_opt, the termios settings last applied
    m_sta,        \* serialib::m_sta, the modem status bits last applied
    os_files,     \* the descriptors the OS has open for the process: descriptor -> device
    os_rx,        \* the bytes waiting in the input queue of the port
    send_lk,      \* owner of serialib::send_lk (NoThread when free)
    read_lk,      \* owner of serialib::read_lk
    term_lk,      \* owner of serialib::term_lk
    frame,        \* frame[t]: the member function thread t runs on the object
    future        \* shared state of the promise of async_read()

\* the state of a serialib object, of the OS behind it and of its callers
svars == <<m_fd, m_device, m_baudrates, m_opt, m_sta, os_files, os_rx,
           send_lk, read_lk, term_lk, frame, future>>

\* the state of the callers of the CRC engines
crcvars == <<pc, args, crc_code, _data, _size, result, crc8_table0, rev, inst>>

vars == <<pc, args, crc_code, _data, _size, result, crc8_table0, rev, inst, svars>>

(***************************************************************************)
(* Bounds of the model.                                                    *)
(***************************************************************************)
\* longest buffer enumerated over ByteAlphabet
MaxLen == 2
\* bytes that can be read behind the end of a buffer before an unmapped page
MaxOverrun == 2
\* most 1 bits in the sampled inputs of binaryReverse for the widths above 8
MaxOnes == 1

Threads == {1, 2}

(***************************************************************************)
(* Integer values as sets of bit positions.                                *)
(***************************************************************************)
\* the value of an integer literal below 2^31
Bits(n) == {i \in 0..30 : (n \div (2^i)) % 2 = 1}

\* a 32-bit literal from its two 16-bit halves, a 64-bit one from its four
Word32(hi, lo) == Bits(lo) \cup {i + 16 : i \in Bits(hi)}
Word64(a, b, c, d) == Word32(c, d) \cup {i + 32 : i \in Word32(a, b)}

RECURSIVE Val(_)
\* the number a (small) bit set stands for
Val(s) == IF s = {} THEN 0 ELSE LET i == CHOOSE j \in s : TRUE IN 2^i + Val(s \ {i})

\* Every operator yields an enumerated subset of 0..63, the positions of the
\* widest type the engines use.
\* a ^ b
Xor(a, b) == {i \in 0..63 : (i \in a) # (i \in b)}
\* a | b
Or(a, b) == {i \in 0..63 : i \in a \/ i \in b}
\* a & b
And(a, b) == {i \in 0..63 : i \in a /\ i \in b}
\* a << n, evaluated in a type of w bits
Shl(a, n, w) == {i \in 0..(w - 1) : (i - n) \in a}
\* a >> n of a non-negative value
Shr(a, n) == {i \in 0..63 : (i + n) \in a}
\* conversion to an unsigned type of w bits: the value modulo 2^w
Convert(w, a) == {i \in 0..(w - 1) : i \in a}
\* integral promotion: an operand narrower than int is computed as a 32-bit int
Promoted(w) == IF w < 32 THEN 32 ELSE w

\* --x of a 64-bit std::size_t; 0 wraps to 2^64 - 1
Decrement(s) ==
    IF s = {} THEN {i \in 0..63 : TRUE}
    ELSE LET k == CHOOSE i \in s : \A j \in s : i <= j
         IN {i \in 0..63 : i < k \/ (i > k /\ i \in s)}

(***************************************************************************)
(* binaryReverse<size>(T _byte), T of tw bits.                             *)
(***************************************************************************)
\* the loop with the "& 0x01" left out: every remaining bit of _byte is or-ed in
RECURSIVE binaryReverseLoop_nomask(_, _, _)
binaryReverseLoop_nomask(size, tw, loop) ==
    IF loop.bit = size THEN loop.reversed_byte
    ELSE binaryReverseLoop_nomask(size, tw,
            [bit           |-> loop.bit + 1,
             reversed_byte |-> Convert(tw, Or(Shl(loop.reversed_byte, 1, Promoted(tw)),
                                              loop.byte)),
             byte          |-> Shr(loop.byte, 1)])

\* the for loop; its variables are bit, reversed_byte and _byte
RECURSIVE binaryReverseLoop(_, _, _)
binaryReverseLoop(size, tw, loop) ==
    IF loop.bit = size THEN loop.reversed_byte
    ELSE binaryReverseLoop(size, tw,
            [bit           |-> loop.bit + 1,
             reversed_byte |-> Convert(tw, Or(Shl(loop.reversed_byte, 1, Promoted(tw)),
                                              And(loop.byte, Bits(\H01)))),
             byte          |-> Shr(loop.byte, 1)])

\* serialib.hpp, the generic engine
binaryReverse(size, tw, byte) ==
    binaryReverseLoop(size, tw, [bit |-> 0, reversed_byte |-> {}, byte |-> Convert(tw, byte)])

\* authlib.hpp
authlib_binaryReverse(size, tw, byte) ==
    binaryReverseLoop(size, tw, [bit |-> 0, reversed_byte |-> {}, byte |-> Convert(tw, byte)])

\* serialib.hpp, the crc8_gen engine
crc8_binaryReverse(size, tw, byte) ==
    binaryReverseLoop(size, tw, [bit |-> 0, reversed_byte |-> {}, byte |-> Convert(tw, byte)])

(***************************************************************************)
(* The table builders.                                                     *)
(***************************************************************************)
\* sizeof(T) * 8 of the register types the catalogue uses
TypeBits == [uint8_t |-> 8, uint16_t |-> 16, uint32_t |-> 32, uint64_t |-> 64]

RECURSIVE DivisionLoop_nopoly(_, _, _, _, _)
\* the inner loop that shifts only and never XORs the polynomial in
DivisionLoop_nopoly(bits, cw, mask, polynomial, loop) ==
    IF loop.bit = bits THEN loop.crc
    ELSE DivisionLoop_nopoly(bits, cw, mask, polynomial,
            [bit |-> loop.bit + 1, crc |-> Shl(loop.crc, 1, cw)])

RECURSIVE DivisionLoop(_, _, _, _, _)
\* the inner loop; its variables are bit and crc, crc of a type of cw bits
DivisionLoop(bits, cw, mask, polynomial, loop) ==
    IF loop.bit = bits THEN loop.crc
    ELSE DivisionLoop(bits, cw, mask, polynomial,
            [bit |-> loop.bit + 1,
             crc |-> IF And(loop.crc, mask) # {}
                     THEN Xor(Shl(loop.crc, 1, cw), polynomial)
                     ELSE Shl(loop.crc, 1, cw)])

\* the builder with the ">> shift" of the reflected seed left out
generateCRCTable_noshift(bits, polynomial, ref_in, ref_out) ==
    LET shift == bits - 8
        cw    == Promoted(bits)
        mask  == Shl(Bits(\H80), shift, cw)
    IN  [byte \in 0..255 |->
            LET seed == IF ref_in
                        THEN binaryReverse(bits, bits, Bits(byte))
                        ELSE Bits(byte)
                crc  == DivisionLoop(bits, cw, mask, polynomial, [bit |-> 0, crc |-> seed])
            IN  Convert(bits, IF ref_out THEN binaryReverse(bits, cw, crc) ELSE crc)]

\* serialib.hpp generateCRCTable<T>: crc is an int for the 8- and 16-bit T
generateCRCTable(bits, polynomial, ref_in, ref_out) ==
    LET shift == bits - 8
        cw    == Promoted(bits)
        mask  == Shl(Bits(\H80), shift, cw)
    IN  [byte \in 0..255 |->
            LET seed == IF ref_in
                        THEN Shr(binaryReverse(bits, bits, Bits(byte)), shift)
                        ELSE Bits(byte)
                crc  == DivisionLoop(bits, cw, mask, polynomial, [bit |-> 0, crc |-> seed])
            IN  Convert(bits, IF ref_out THEN binaryReverse(bits, cw, crc) ELSE crc)]

\* the builder that stores crc without reflecting it when ref_out is set
authlib_generateCRCTable_noreflect(bits, polynomial, ref_in, ref_out) ==
    LET shift == bits - 8
        cw    == Promoted(bits)
        mask  == Shl(Bits(\H80), shift, 32)
    IN  [byte \in 0..255 |->
            LET seed == IF ref_in
                        THEN Shr(authlib_binaryReverse(bits, bits, Bits(byte)), shift)
                        ELSE Bits(byte)
                crc  == DivisionLoop(bits, cw, mask, polynomial, [bit |-> 0, crc |-> seed])
            IN  Convert(bits, crc)]

\* authlib.hpp generateCRCTable<T>: the mask is the int 0x80 << shift
authlib_generateCRCTable(bits, polynomial, ref_in, ref_out) ==
    LET shift == bits - 8
        cw    == Promoted(bits)
        mask  == Shl(Bits(\H80), shift, 32)
    IN  [byte \in 0..255 |->
            LET seed == IF ref_in
                        THEN Shr(authlib_binaryReverse(bits, bits, Bits(byte)), shift)
                        ELSE Bits(byte)
                crc  == DivisionLoop(bits, cw, mask, polynomial, [bit |-> 0, crc |-> seed])
            IN  Convert(bits, IF ref_out THEN authlib_binaryReverse(bits, cw, crc) ELSE crc)]

RECURSIVE CRC8DivisionLoop(_, _)
\* the inner loop of generateCRC8Table; crc is a uint8_t
CRC8DivisionLoop(polynomial, loop) ==
    IF loop.bit = 8 THEN loop.crc
    ELSE CRC8DivisionLoop(polynomial,
            [bit |-> loop.bit + 1,
             crc |-> IF And(loop.crc, Bits(\H80)) # {}
                     THEN Convert(8, Xor(Shl(loop.crc, 1, 32), polynomial))
                     ELSE Convert(8, Shl(loop.crc, 1, 32))])

\* serialib.hpp generateCRC8Table: the loop runs over iota_view(1, 256), so
\* crc_table[0] keeps the indeterminate value the array was created with
generateCRC8Table(polynomial, ref_in, ref_out, table0) ==
    [byte \in 0..255 |->
        IF byte \notin 1..255 THEN table0
        ELSE LET seed == IF ref_in THEN crc8_binaryReverse(8, 8, Bits(byte)) ELSE Bits(byte)
                 crc  == CRC8DivisionLoop(polynomial, [bit |-> 0, crc |-> seed])
             IN  IF ref_out THEN crc8_binaryReverse(8, 8, crc) ELSE crc]

(***************************************************************************)
(* The catalogues.                                                         *)
(***************************************************************************)
Params(V, polynomial, init, xor_out, ref_in, ref_out) ==
    [V |-> V, polynomial |-> polynomial, init |-> init, xor_out |-> xor_out,
     ref_in |-> ref_in, ref_out |-> ref_out]

\* serialib.hpp crc_gen<T>: the template arguments of generateCRCCode per CRCTypes
crc_gen_params == [
    crc8              |-> Params("uint8_t", Bits(\H07), Bits(\H00), Bits(\H00), FALSE, FALSE),
    crc8_cdma2000     |-> Params("uint8_t", Bits(\H9b), Bits(\Hff), Bits(\H00), FALSE, FALSE),
    crc8_darc         |-> Params("uint8_t", Bits(\H39), Bits(\H00), Bits(\H00), TRUE, TRUE),
    crc8_dvb_s2       |-> Params("uint8_t", Bits(\Hd5), Bits(\H00), Bits(\H00), FALSE, FALSE),
    crc8_ebu          |-> Params("uint8_t", Bits(\H1d), Bits(\Hff), Bits(\H00), TRUE, TRUE),
    crc8_i_code       |-> Params("uint8_t", Bits(\H1d), Bits(\Hfd), Bits(\H00), FALSE, FALSE),
    crc8_itu          |-> Params("uint8_t", Bits(\H07), Bits(\H00), Bits(\H55), FALSE, FALSE),
    crc8_maxim        |-> Params("uint8_t", Bits(\H31), Bits(\H00), Bits(\H00), TRUE, TRUE),
    crc8_rohc         |-> Params("uint8_t", Bits(\H07), Bits(\Hff), Bits(\H00), TRUE, TRUE),
    crc8_wcdma        |-> Params("uint8_t", Bits(\H9b), Bits(\H00), Bits(\H00), TRUE, TRUE),
    crc16_a           |-> Params("uint16_t", Bits(\H1021), Bits(\Hc6c6), Bits(\H0000), TRUE, TRUE),
    crc16_arc         |-> Params("uint16_t", Bits(\H8005), Bits(\H0000), Bits(\H0000), TRUE, TRUE),
    crc16_aug_ccitt   |-> Params("uint16_t", Bits(\H1021), Bits(\H1d0f), Bits(\H0000), FALSE, FALSE),
    crc16_buypass     |-> Params("uint16_t", Bits(\H8005), Bits(\H0000), Bits(\H0000), FALSE, FALSE),
    crc16_cdma2000    |-> Params("uint16_t", Bits(\Hc867), Bits(\Hffff), Bits(\H0000), FALSE, FALSE),
    crc16_ccitt_false |-> Params("uint16_t", Bits(\H1021), Bits(\Hffff), Bits(\H0000), FALSE, FALSE),
    crc16_dds_110     |-> Params("uint16_t", Bits(\H8005), Bits(\H800d), Bits(\H0000), FALSE, FALSE),
    crc16_dect_r      |-> Params("uint16_t", Bits(\H0589), Bits(\H0000), Bits(\H0001), FALSE, FALSE),
    crc16_dect_x      |-> Params("uint16_t", Bits(\H0589), Bits(\H0000), Bits(\H0000), FALSE, FALSE),
    crc16_dnp         |-> Params("uint16_t", Bits(\H3d65), Bits(\H0000), Bits(\Hffff), TRUE, TRUE),
    crc16_en_13757    |-> Params("uint16_t", Bits(\H3d65), Bits(\H0000), Bits(\Hffff), FALSE, FALSE),
    crc16_genibus     |-> Params("uint16_t", Bits(\H1021), Bits(\Hffff), Bits(\Hffff), FALSE, FALSE),
    crc16_kermit      |-> Params("uint16_t", Bits(\H1021), Bits(\H0000), Bits(\H0000), TRUE, TRUE),
    crc16_maxim       |-> Params("uint16_t", Bits(\H8005), Bits(\H0000), Bits(\Hffff), TRUE, TRUE),
    crc16_mcrf4xx     |-> Params("uint16_t", Bits(\H1021), Bits(\Hffff), Bits(\H0000), TRUE, TRUE),
    crc16_modbus      |-> Params("uint16_t", Bits(\H8005), Bits(\Hffff), Bits(\H0000), TRUE, TRUE),
    crc16_riello      |-> Params("uint16_t", Bits(\H1021), Bits(\Hb2aa), Bits(\H0000), TRUE, TRUE),
    crc16_t10_dif     |-> Params("uint16_t", Bits(\H8bb7), Bits(\H0000), Bits(\H0000), FALSE, FALSE),
    crc16_teledisk    |-> Params("uint16_t", Bits(\Ha097), Bits(\H0000), Bits(\H0000), FALSE, FALSE),
    crc16_tms37157    |-> Params("uint16_t", Bits(\H1021), Bits(\H89ec), Bits(\H0000), TRUE, TRUE),
    crc16_usb         |-> Params("uint16_t", Bits(\H8005), Bits(\Hffff), Bits(\Hffff), TRUE, TRUE),
    crc16_x_25        |-> Params("uint16_t", Bits(\H1021), Bits(\Hffff), Bits(\Hffff), TRUE, TRUE),
    crc16_xmodem      |-> Params("uint16_t", Bits(\H1021), Bits(\H0000), Bits(\H0000), FALSE, FALSE),
    crc32             |-> Params("uint32_t", Word32(\H04c1, \H1db7), Word32(\Hffff, \Hffff), Word32(\Hffff, \Hffff), TRUE, TRUE),
    crc32_bzip2       |-> Params("uint32_t", Word32(\H04c1, \H1db7), Word32(\Hffff, \Hffff), Word32(\Hffff, \Hffff), FALSE, FALSE),
    crc32_c           |-> Params("uint32_t", Word32(\H1edc, \H6f41), Word32(\Hffff, \Hffff), Word32(\Hffff, \Hffff), TRUE, TRUE),
    crc32_d           |-> Params("uint32_t", Word32(\Ha833, \H982b), Word32(\Hffff, \Hffff), Word32(\Hffff, \Hffff), TRUE, TRUE),
    crc32_jamcrc      |-> Params("uint32_t", Word32(\H04c1, \H1db7), Word32(\Hffff, \Hffff), Word32(\H0000, \H0000), TRUE, TRUE),
    crc32_mpeg_2      |-> Params("uint32_t", Word32(\H04c1, \H1db7), Word32(\Hffff, \Hffff), Word32(\H0000, \H0000), FALSE, FALSE),
    crc32_posix       |-> Params("uint32_t", Word32(\H04c1, \H1db7), Word32(\H0000, \H0000), Word32(\Hffff, \Hffff), FALSE, FALSE),
    crc32_q           |-> Params("uint32_t", Word32(\H8141, \H41ab), Word32(\H0000, \H0000), Word32(\H0000, \H0000), FALSE, FALSE),
    crc32_xfer        |-> Params("uint32_t", Word32(\H0000, \H00af), Word32(\H0000, \H0000), Word32(\H0000, \H0000), FALSE, FALSE),
    crc64_ecma        |-> Params("uint64_t", Word64(\H42f0, \He1eb, \Ha9ea, \H3693), Word64(\Hffff, \Hffff, \Hffff, \Hffff), Word64(\Hffff, \Hffff, \Hffff, \Hffff), TRUE, TRUE),
    crc64_iso         |-> Params("uint64_t", Word64(\H0000, \H0000, \H0000, \H001b), Word64(\Hffff, \Hffff, \Hffff, \Hffff), Word64(\Hffff, \Hffff, \Hffff, \Hffff), TRUE, TRUE)
]

CRCTypes == DOMAIN crc_gen_params

\* authlib.hpp initCRCTable<T>: polynomial, ref_in, ref_out per crc_types
initCRCTable_args == [
    crc8_ccitt    |-> <<Bits(\H07), FALSE, FALSE>>,
    crc8_itu      |-> <<Bits(\H07), FALSE, FALSE>>,
    crc8_rohc     |-> <<Bits(\H07), TRUE,  TRUE>>,
    crc8_ebu      |-> <<Bits(\H1d), TRUE,  TRUE>>,
    crc8_i_code   |-> <<Bits(\H1d), FALSE, FALSE>>,
    crc8_maxim    |-> <<Bits(\H31), TRUE,  TRUE>>,
    crc8_darc     |-> <<Bits(\H39), TRUE,  TRUE>>,
    crc8_cdma2000 |-> <<Bits(\H9b), FALSE, FALSE>>,
    crc8_wcdma    |-> <<Bits(\H9b), TRUE,  TRUE>>,
    crc8_dvb_s2   |-> <<Bits(\Hd5), FALSE, FALSE>>
]

crc_types == DOMAIN initCRCTable_args

initCRCTable(T) ==
    authlib_generateCRCTable(8, initCRCTable_args[T][1], initCRCTable_args[T][2],
                             initCRCTable_args[T][3])

\* serialib.hpp initCRC8Table<T>: polynomial, ref_in, ref_out per crc8_types
initCRC8Table_args == [
    ccitt    |-> <<Bits(\H07), FALSE, FALSE>>,
    itu      |-> <<Bits(\H07), FALSE, FALSE>>,
    rohc     |-> <<Bits(\H07), TRUE,  TRUE>>,
    ebu      |-> <<Bits(\H1d), TRUE,  TRUE>>,
    i_code   |-> <<Bits(\H1d), FALSE, FALSE>>,
    maxim    |-> <<Bits(\H31), TRUE,  TRUE>>,
    darc     |-> <<Bits(\H39), TRUE,  TRUE>>,
    cdma2000 |-> <<Bits(\H9b), FALSE, FALSE>>,
    wcdma    |-> <<Bits(\H9b), TRUE,  TRUE>>,
    dvb_s2   |-> <<Bits(\Hd5), FALSE, FALSE>>
]

crc8_types == DOMAIN initCRC8Table_args

initCRC8Table(T, table0) ==
    generateCRC8Table(initCRC8Table_args[T][1], initCRC8Table_args[T][2],
                      initCRC8Table_args[T][3], table0)

(***************************************************************************)
(* The calls a thread can make.                                            *)
(***************************************************************************)
\* the byte values the enumerated buffers are made of
ByteAlphabet == {0, 49, 128, 255}
\* the ASCII bytes of "123456789"
CheckString == <<49, 50, 51, 52, 53, 54, 55, 56, 57>>
Buffers == UNION {[1..k -> ByteAlphabet] : k \in 0..MaxLen} \cup {CheckString}
\* what a read behind the end of the buffer may find in memory
StrayBytes == {0, 255}
\* what the never-written crc_table[0] of generateCRC8Table may hold
IndeterminateBytes == {Bits(\H00), Bits(\Ha5)}

\* the overloads: (const uint8_t*, size) and the container one that forwards
\* data() and size() to it, and (const char*) that takes the size from strlen
Overloads == {"ptr_size", "c_str"}

CallsOf(fn, types, buffers) ==
    {[fn |-> fn, T |-> T, overload |-> o, data |-> d] :
        T \in types, o \in Overloads, d \in buffers}

\* strlen ends at the first 0, so a c_str call never has a 0 among its bytes
WellFormed(a) == a.overload = "c_str" => \A i \in 1..Len(a.data) : a.data[i] # 0

Calls == {a \in CallsOf("crc_gen", CRCTypes, Buffers)
                \cup CallsOf("authlib_crc_gen", crc_types, Buffers)
                \cup CallsOf("crc8_gen", crc8_types, Buffers) : WellFormed(a)}

NoCall == [fn |-> "none", T |-> "none", overload |-> "none", data |-> <<>>]

\* template arguments of generateCRCCode instantiated directly, with the two
\* reflection flags set independently
generateCRCCode_args == [
    refin8   |-> Params("uint8_t", Bits(\H07), Bits(\H00), Bits(\H00), TRUE, FALSE),
    refout8  |-> Params("uint8_t", Bits(\H07), Bits(\Hff), Bits(\H00), FALSE, TRUE),
    refin16  |-> Params("uint16_t", Bits(\H1021), Bits(\Hffff), Bits(\H0000), TRUE, FALSE),
    refout16 |-> Params("uint16_t", Bits(\H1021), Bits(\H0000), Bits(\Hffff), FALSE, TRUE),
    refin32  |-> Params("uint32_t", Word32(\H04c1, \H1db7), Word32(\Hffff, \Hffff),
                        Word32(\H0000, \H0000), TRUE, FALSE)
]

\* the call runs the generic engine of serialib.hpp
Generic(a) == a.fn \in {"crc_gen", "generateCRCCode"}

\* the template arguments generateCRCCode is instantiated with
TemplateArgs(a) ==
    IF a.fn = "crc_gen" THEN crc_gen_params[a.T] ELSE generateCRCCode_args[a.T]

\* static constexpr auto crc_table of the engine the call runs
crc_table(a, table0) ==
    IF Generic(a)
    THEN LET p == TemplateArgs(a)
         IN  generateCRCTable(TypeBits[p.V], p.polynomial, p.ref_in, p.ref_out)
    ELSE IF a.fn = "authlib_crc_gen" THEN initCRCTable(a.T)
    ELSE initCRC8Table(a.T, table0)

\* auto crc_code { ... } and the if constexpr branches that follow it
InitialCode(a) ==
    IF Generic(a) THEN TemplateArgs(a).init
    ELSE IF a.fn = "authlib_crc_gen"
    THEN IF a.T \in {"crc8_rohc", "crc8_ebu", "crc8_cdma2000"} THEN Bits(\Hff)
         ELSE IF a.T = "crc8_i_code" THEN Bits(\Hfd)
         ELSE Bits(\H00)
    ELSE IF a.T \in {"rohc", "ebu", "cdma2000"} THEN Bits(\Hff)
         ELSE IF a.T = "i_code" THEN Bits(\Hfd)
         ELSE Bits(\H00)

\* the index taken from the low byte of the register whatever ref_in is
TableIndex_low(a, code, byte) ==
    IF Generic(a)
    THEN Xor(And(code, Bits(\Hff)), Bits(byte))
    ELSE Xor(code, Bits(byte))

\* the index taken from the whole register when ref_in is not set
TableIndex_noshift(a, code, byte) ==
    IF Generic(a)
    THEN Xor(IF TemplateArgs(a).ref_in THEN And(code, Bits(\Hff)) ELSE code, Bits(byte))
    ELSE Xor(code, Bits(byte))

\* the argument of crc_table.at() in the loop body
TableIndex(a, code, byte) ==
    IF Generic(a)
    THEN LET p == TemplateArgs(a)
             shift == TypeBits[p.V] - 8
         IN  Xor(IF p.ref_in THEN And(code, Bits(\Hff)) ELSE Shr(code, shift), Bits(byte))
    ELSE Xor(code, Bits(byte))

\* the register kept in the promoted type: the assignment does not cut the
\* value down to the width of V
FoldedCode_wide(a, code, entry) ==
    IF Generic(a)
    THEN LET p    == TemplateArgs(a)
             bits == TypeBits[p.V]
         IN  Xor(IF p.ref_out THEN Shr(code, 8) ELSE Shl(code, 8, Promoted(bits)), entry)
    ELSE entry

\* the value the loop body assigns to the register, entry being crc_table.at(index)
FoldedCode(a, code, entry) ==
    IF Generic(a)
    THEN LET p    == TemplateArgs(a)
             bits == TypeBits[p.V]
         IN  Convert(bits,
                Xor(IF p.ref_out THEN Shr(code, 8) ELSE Shl(code, 8, Promoted(bits)), entry))
    ELSE entry

\* the 8-bit engines returning the register without the final XOR of itu
ReturnedCode_noitu(a, code) ==
    IF Generic(a) THEN Xor(code, TemplateArgs(a).xor_out) ELSE code

\* the value returned after the loop
ReturnedCode(a, code) ==
    IF Generic(a) THEN Xor(code, TemplateArgs(a).xor_out)
    ELSE IF a.fn = "authlib_crc_gen"
    THEN IF a.T = "crc8_itu" THEN Xor(code, Bits(\H55)) ELSE code
    ELSE IF a.T = "itu" THEN Xor(code, Bits(\H55)) ELSE code

(***************************************************************************)
(* The steps of one call.                                                  *)
(***************************************************************************)
\* crc_gen / crc8_gen is entered: the overload fixes _size, the engine
\* initialises its register
Call(t) ==
    /\ pc[t] = "call"
    /\ crc_code' = [crc_code EXCEPT ![t] = InitialCode(args[t])]
    /\ _data' = [_data EXCEPT ![t] = 0]
    /\ _size' = [_size EXCEPT ![t] = Bits(Len(args[t].data))]
    /\ pc' = [pc EXCEPT ![t] = "do"]
    /\ UNCHANGED <<args, result, crc8_table0, rev, inst, svars>>

\* one pass of do { ... } while (--_size) with *_data++ yielding byte
Iterate(t, byte) ==
    LET a     == args[t]
        index == TableIndex(a, crc_code[t], byte)
    IN  IF ~(index \subseteq 0..7)
        THEN \* at() throws std::out_of_range in a noexcept function
             /\ pc' = [pc EXCEPT ![t] = "terminate"]
             /\ UNCHANGED <<crc_code, _data, _size>>
        ELSE /\ crc_code' = [crc_code EXCEPT ![t] =
                    FoldedCode(a, crc_code[t], crc_table(a, crc8_table0)[Val(index)])]
             /\ _data' = [_data EXCEPT ![t] = @ + 1]
             /\ _size' = [_size EXCEPT ![t] = Decrement(@)]
             /\ pc' = [pc EXCEPT ![t] = IF Decrement(_size[t]) = {} THEN "return" ELSE "do"]

\* the loop body reads a byte of the buffer
Fold(t) ==
    /\ pc[t] = "do"
    /\ _data[t] < Len(args[t].data)
    /\ Iterate(t, args[t].data[_data[t] + 1])
    /\ UNCHANGED <<args, result, crc8_table0, rev, inst, svars>>

\* the loop body reads behind the last byte of the buffer: the terminating 0
\* of a C string first, then whatever the memory holds
FoldBehind(t) ==
    /\ pc[t] = "do"
    /\ _data[t] >= Len(args[t].data)
    /\ _data[t] - Len(args[t].data) < MaxOverrun
    /\ \E byte \in IF args[t].overload = "c_str" /\ _data[t] = Len(args[t].data)
                   THEN {0} ELSE StrayBytes :
          Iterate(t, byte)
    /\ UNCHANGED <<args, result, crc8_table0, rev, inst, svars>>

\* a read behind the buffer (and its terminator) hits memory that is not mapped
Fault(t) ==
    /\ pc[t] = "do"
    /\ _data[t] >= Len(args[t].data) + (IF args[t].overload = "c_str" THEN 1 ELSE 0)
    /\ pc' = [pc EXCEPT ![t] = "fault"]
    /\ UNCHANGED <<args, crc_code, _data, _size, result, crc8_table0, rev, inst, svars>>

\* the final XOR and the return
Return(t) ==
    /\ pc[t] = "return"
    /\ result' = [result EXCEPT ![t] = ReturnedCode(args[t], crc_code[t])]
    /\ pc' = [pc EXCEPT ![t] = "done"]
    /\ UNCHANGED <<args, crc_code, _data, _size, crc8_table0, rev, inst, svars>>

NoRev == [pc |-> "none"]
NoInst == [pc |-> "none"]

\* a mutex nobody owns
NoThread == 0
\* a thread that runs no member function of the serialib object
NoFrame == [fn |-> "none", pc |-> "none"]
\* no promise was made
NoFuture == [state |-> "none"]
\* struct termios m_opt before open() filled it
NoOpt == [raw |-> FALSE, speed |-> 0]
\* the modem lines kept in m_sta; int m_sta { -1 } has every one of them set
StatusBits == {"TIOCM_DTR", "TIOCM_RTS", "TIOCM_CTS"}

\* no serialib object is in use
PortUnused ==
    /\ m_fd = -1
    /\ m_device = ""
    /\ m_baudrates = 0
    /\ m_opt = NoOpt
    /\ m_sta = StatusBits
    /\ os_files = <<>>
    /\ os_rx = <<>>
    /\ send_lk = NoThread
    /\ read_lk = NoThread
    /\ term_lk = NoThread
    /\ frame = [t \in Threads |-> NoFrame]
    /\ future = NoFuture

InitThreads(calling, calls) ==
    /\ args \in {f \in [Threads -> calls \cup {NoCall}] :
                    \A t \in Threads : (f[t] = NoCall) <=> (t \notin calling)}
    /\ pc = [t \in Threads |-> IF t \in calling THEN "call" ELSE "idle"]
    /\ crc_code = [t \in Threads |-> {}]
    /\ _data = [t \in Threads |-> 0]
    /\ _size = [t \in Threads |-> {}]
    /\ result = [t \in Threads |-> {}]
    /\ crc8_table0 \in IndeterminateBytes

\* one thread makes one call
Init ==
    /\ InitThreads({1}, Calls)
    /\ rev = NoRev
    /\ inst = NoInst
    /\ PortUnused

Next ==
    \E t \in Threads : Call(t) \/ Fold(t) \/ FoldBehind(t) \/ Fault(t) \/ Return(t)

Spec == Init /\ [][Next]_vars

(***************************************************************************)
(* Claims about one call.                                                  *)
(***************************************************************************)
\* the register width of the variant a call selects
WidthOf(a) == IF Generic(a) THEN TypeBits[TemplateArgs(a).V] ELSE 8

Entered(t) == pc[t] \in {"do", "return", "done", "fault", "terminate"}

\* C1: a call on an empty buffer reads no byte of it, does not fail, and
\* returns init XOR xor_out of its variant.
C1_EmptyInputIdentity ==
    \A t \in Threads :
        (Entered(t) /\ Len(args[t].data) = 0) =>
            /\ _data[t] = 0
            /\ pc[t] \notin {"fault", "terminate"}
            /\ pc[t] = "done" =>
                 result[t] = ReturnedCode(args[t], InitialCode(args[t]))

\* C2: a call on a buffer of n >= 0 bytes runs the loop body exactly n times,
\* reading the bytes 0..n-1 only, and ends by returning.
C2_ExactlyLenIterations ==
    \A t \in Threads :
        Entered(t) =>
            /\ _data[t] <= Len(args[t].data)
            /\ pc[t] \in {"return", "done"} => _data[t] = Len(args[t].data)
            /\ pc[t] \notin {"fault", "terminate"}

\* C3: crc8_maxim over "123456789" is 0xA1, in authlib.hpp's engine and in the
\* generic engine.
C3_Crc8MaximCheck ==
    \A t \in Threads :
        (/\ pc[t] = "done"
         /\ args[t].fn \in {"crc_gen", "authlib_crc_gen"}
         /\ args[t].T = "crc8_maxim"
         /\ args[t].data = CheckString) => result[t] = Bits(\Ha1)

C3_Witness ==
    \E t \in Threads :
        /\ pc[t] = "done"
        /\ args[t].fn = "authlib_crc_gen"
        /\ args[t].T = "crc8_maxim"
        /\ args[t].data = CheckString
        /\ _data[t] = 9
        /\ result[t] = Bits(\Ha1)

\* C4: crc32 over "123456789" is 0xCBF43926.
C4_Crc32Check ==
    \A t \in Threads :
        (/\ pc[t] = "done"
         /\ args[t].fn = "crc_gen"
         /\ args[t].T = "crc32"
         /\ args[t].data = CheckString) => result[t] = Word32(\Hcbf4, \H3926)

C4_Witness ==
    \E t \in Threads :
        /\ pc[t] = "done"
        /\ args[t].fn = "crc_gen"
        /\ args[t].T = "crc32"
        /\ args[t].data = CheckString
        /\ _data[t] = 9
        /\ result[t] = Word32(\Hcbf4, \H3926)

\* C5: crc16_ccitt_false over "123456789" is 0x29B1.
C5_Crc16CcittFalseCheck ==
    \A t \in Threads :
        (/\ pc[t] = "done"
         /\ args[t].fn = "crc_gen"
         /\ args[t].T = "crc16_ccitt_false"
         /\ args[t].data = CheckString) => result[t] = Bits(\H29b1)

C5_Witness ==
    \E t \in Threads :
        /\ pc[t] = "done"
        /\ args[t].fn = "crc_gen"
        /\ args[t].T = "crc16_ccitt_false"
        /\ args[t].data = CheckString
        /\ _data[t] = 9
        /\ result[t] = Bits(\H29b1)

\* C6: the plain CRC-8 (poly 0x07, init 0, xor_out 0, no reflection) of the
\* one-byte buffer [0x00] is 0x00 in crc_gen<crc8>, in authlib.hpp's
\* crc_gen<crc8_ccitt> and in crc8_gen<ccitt>.
C6_ZeroByteIsZero ==
    \A t \in Threads :
        (/\ pc[t] = "done"
         /\ <<args[t].fn, args[t].T>> \in {<<"crc_gen", "crc8">>,
                                           <<"authlib_crc_gen", "crc8_ccitt">>,
                                           <<"crc8_gen", "ccitt">>}
         /\ args[t].data = <<0>>) => result[t] = Bits(\H00)

\* C8: what a call on a non-empty buffer returns lies in 0 .. 2^width - 1.
C8_ReturnedWithinWidth ==
    \A t \in Threads :
        (pc[t] = "done" /\ Len(args[t].data) > 0) =>
            result[t] \subseteq 0..(WidthOf(args[t]) - 1)

\* a returned 8-bit checksum whose register was shifted left by 8 in an int
C8_Witness ==
    \E t \in Threads :
        /\ pc[t] = "done"
        /\ args[t].fn = "crc_gen"
        /\ args[t].T = "crc8_cdma2000"
        /\ Len(args[t].data) = 2
        /\ Shl(InitialCode(args[t]), 8, 32) # {}
        /\ result[t] # {}
        /\ result[t] \subseteq 0..7

(***************************************************************************)
(* Two threads call concurrently.                                          *)
(***************************************************************************)
ConcTypes == {"crc8", "crc8_maxim", "crc16_arc", "maxim"}
ConcCalls == {a \in Calls : a.T \in ConcTypes /\ a.overload = "ptr_size" /\ Len(a.data) <= 1}

InitConc ==
    /\ InitThreads(Threads, ConcCalls)
    /\ rev = NoRev
    /\ inst = NoInst
    /\ PortUnused

SpecConc == InitConc /\ [][Next]_vars

\* C9: what a call computes depends on its buffer and its variant only: two
\* calls of the same function on the same buffer hold the same register after
\* the same number of loop passes and return the same value, however the
\* threads that make them are interleaved.
C9_Deterministic ==
    \A t, u \in Threads :
        (Entered(t) /\ Entered(u) /\ args[t] = args[u]) =>
            /\ _data[t] = _data[u] => crc_code[t] = crc_code[u]
            /\ (pc[t] = "done" /\ pc[u] = "done") => result[t] = result[u]

(***************************************************************************)
(* A caller that applies binaryReverse<size> twice to a value of a type    *)
(* of tw bits.                                                             *)
(***************************************************************************)
\* <<size, tw>> as the engines instantiate the template: on the register type
\* itself, and on the int that crc is for the 8- and 16-bit registers
Instantiations ==
    [serialib |-> {<<8, 8>>, <<16, 16>>, <<32, 32>>, <<64, 64>>, <<8, 32>>, <<16, 32>>},
     authlib  |-> {<<8, 8>>, <<8, 32>>}]

RECURSIVE Sparse(_, _)
\* the values of a tw-bit type with at most k bits set
Sparse(k, tw) ==
    IF k = 0 THEN {{}}
    ELSE Sparse(k - 1, tw) \cup {Or(s, {i}) : s \in Sparse(k - 1, tw), i \in 0..(tw - 1)}

\* the inputs: every 8-bit value, and for the wider types the values with at
\* most MaxOnes bits set or at most MaxOnes bits clear
Inputs(tw) ==
    IF tw = 8 THEN {Or(s, {}) : s \in SUBSET (0..7)}
    ELSE Sparse(MaxOnes, tw) \cup {{i \in 0..(tw - 1) : i \notin s} : s \in Sparse(MaxOnes, tw)}

ReverseOf(lib, size, tw, x) ==
    IF lib = "serialib" THEN binaryReverse(size, tw, x) ELSE authlib_binaryReverse(size, tw, x)

ReverseOnce ==
    /\ rev.pc = "start"
    /\ rev' = [rev EXCEPT !.pc = "once",
                          !.once = ReverseOf(rev.lib, rev.size, rev.tw, rev.x)]
    /\ UNCHANGED <<pc, args, crc_code, _data, _size, result, crc8_table0, inst, svars>>

ReverseTwice ==
    /\ rev.pc = "once"
    /\ rev' = [rev EXCEPT !.pc = "twice",
                          !.twice = ReverseOf(rev.lib, rev.size, rev.tw, rev.once)]
    /\ UNCHANGED <<pc, args, crc_code, _data, _size, result, crc8_table0, inst, svars>>

InitReflect ==
    /\ InitThreads({}, Calls)
    /\ inst = NoInst
    /\ PortUnused
    /\ \E lib \in DOMAIN Instantiations :
         \E i \in Instantiations[lib] :
            \E x \in Inputs(i[2]) :
               rev = [pc |-> "start", lib |-> lib, size |-> i[1], tw |-> i[2],
                      x |-> x, once |-> {}, twice |-> {}]

NextReflect == ReverseOnce \/ ReverseTwice

SpecReflect == InitReflect /\ [][NextReflect]_vars

\* C7: binaryReverse<w> applied twice to a value that fits in w bits gives the
\* value back; applied to any value it gives the low w bits in reverse order
\* and nothing above bit w-1.
C7_ReverseRoundTrip ==
    /\ rev.pc \in {"once", "twice"} =>
          rev.once = {i \in 0..(rev.size - 1) : (rev.size - 1 - i) \in rev.x}
    /\ (rev.pc = "twice" /\ rev.x \subseteq 0..(rev.size - 1)) => rev.twice = rev.x

C7_Witness ==
    /\ rev.pc = "twice"
    /\ rev.size = 64
    /\ rev.x # {}
    /\ rev.once # rev.x
    /\ rev.twice = rev.x

(***************************************************************************)
(* A caller that assembles a parameter set: it names the template          *)
(* arguments of generateCRCCode, or calls generateCRCTable<T>.             *)
(***************************************************************************)
\* the types a caller may name; is_integral_v holds of all but float
Types == [uint8_t  |-> [bits |-> 8,  signed |-> FALSE, integral |-> TRUE],
          uint16_t |-> [bits |-> 16, signed |-> FALSE, integral |-> TRUE],
          uint32_t |-> [bits |-> 32, signed |-> FALSE, integral |-> TRUE],
          uint64_t |-> [bits |-> 64, signed |-> FALSE, integral |-> TRUE],
          int8_t   |-> [bits |-> 8,  signed |-> TRUE,  integral |-> TRUE],
          int32_t  |-> [bits |-> 32, signed |-> TRUE,  integral |-> TRUE],
          float    |-> [bits |-> 32, signed |-> TRUE,  integral |-> FALSE]]

\* the non-negative literals a caller may write
Literals == {Bits(\H00), Bits(\H07), Bits(\H9b), Bits(\H107), Bits(\H1021)}

\* std::is_integral_v<V>
is_integral_v(V) == Types[V].integral

\* a template argument for a parameter of type V must convert to V without
\* narrowing: the literal has to be a value of V
Representable(V, v) ==
    v \subseteq 0..(Types[V].bits - (IF Types[V].signed THEN 2 ELSE 1))

\* template <typename V, V polynomial, V init, V xor_out, ..., enable_if_t<is_integral_v<V>>>
AssembleCode ==
    /\ inst.pc = "assemble"
    /\ inst.fn = "generateCRCCode"
    /\ IF /\ is_integral_v(inst.V)
          /\ Representable(inst.V, inst.polynomial)
          /\ Representable(inst.V, inst.init)
          /\ Representable(inst.V, inst.xor_out)
       THEN inst' = [inst EXCEPT !.pc = "runs", !.used = inst.polynomial]
       ELSE inst' = [inst EXCEPT !.pc = "rejected"]
    /\ UNCHANGED <<pc, args, crc_code, _data, _size, result, crc8_table0, rev, svars>>

\* generateCRCTable<T>(const T _polynomial, ...): the argument is converted to T
AssembleTable ==
    /\ inst.pc = "assemble"
    /\ inst.fn = "generateCRCTable"
    /\ IF is_integral_v(inst.V)
       THEN inst' = [inst EXCEPT !.pc = "runs",
                                 !.used = Convert(Types[inst.V].bits, inst.polynomial)]
       ELSE inst' = [inst EXCEPT !.pc = "rejected"]
    /\ UNCHANGED <<pc, args, crc_code, _data, _size, result, crc8_table0, rev, svars>>

InitParams ==
    /\ InitThreads({}, Calls)
    /\ rev = NoRev
    /\ PortUnused
    /\ \E V \in DOMAIN Types, polynomial \in Literals :
          \/ \E init \in Literals, xor_out \in Literals :
                inst = [pc |-> "assemble", fn |-> "generateCRCCode", V |-> V,
                        polynomial |-> polynomial, init |-> init, xor_out |-> xor_out,
                        used |-> {}]
          \/ inst = [pc |-> "assemble", fn |-> "generateCRCTable", V |-> V,
                     polynomial |-> polynomial, init |-> {}, xor_out |-> {},
                     used |-> {}]

NextParams == AssembleCode \/ AssembleTable

SpecParams == InitParams /\ [][NextParams]_vars

\* C10: table construction and compute run only for an unsigned 8-, 16-, 32-
\* or 64-bit register type and for a polynomial, init and xor_out that fit in
\* its width; every other parameter set is rejected when it is assembled.
C10_IllFittingRejected ==
    inst.pc = "runs" =>
        /\ inst.V \in {"uint8_t", "uint16_t", "uint32_t", "uint64_t"}
        /\ inst.polynomial \subseteq 0..(Types[inst.V].bits - 1)
        /\ inst.init \subseteq 0..(Types[inst.V].bits - 1)
        /\ inst.xor_out \subseteq 0..(Types[inst.V].bits - 1)
        /\ inst.used = inst.polynomial

(***************************************************************************)
(* The serial port: class ubn::serialib of serialib.hpp.                   *)
(*                                                                         *)
(* frame[t] is the member function thread t runs and the statement it is   *)
(* at.  A std::mutex is the thread that owns it.  The OS is the table of   *)
(* the descriptors the process has open and the input queue of the port.   *)
(***************************************************************************)
Devices == {"/dev/ttyUSB0", "/dev/ttyUSB1"}
Bauds == {9600, 115200}

\* what std::getline reads from the keyboard in terminal()
Lines == {"AT", "exit"}

\* a default-constructed std::string_view
NoView == [data |-> {}, size |-> 0]

\* constexpr bool is_open() const noexcept { return m_fd > 0; }
is_open(fd) == fd > 0

\* the descriptor is one the OS has open
ValidDescriptor(fd) == fd \in DOMAIN os_files

\* the fields operator= copies, for an object opened on dev
OpenedObject(fd, dev, baud) ==
    [m_device |-> dev, m_baudrates |-> baud, m_fd |-> fd,
     m_opt |-> [raw |-> TRUE, speed |-> baud], m_sta |-> {"TIOCM_DTR", "TIOCM_RTS"}]

\* the fields of a default-constructed object
DefaultObject ==
    [m_device |-> "", m_baudrates |-> 0, m_fd |-> -1, m_opt |-> NoOpt, m_sta |-> StatusBits]

\* the calls of the member functions that take the mutexes
SendFrame(rhs) == [fn |-> "operator<<", pc |-> "send_gd", rhs |-> rhs, ret |-> FALSE]
ReadFrame == [fn |-> "operator>>", pc |-> "read_gd", rhs_ |-> NoView, ret |-> FALSE,
              p_buffer_at |-> {}]
FlushFrame == [fn |-> "flush", pc |-> "send_gd", ret |-> FALSE]
AssignFrame(_rhs) == [fn |-> "operator=", pc |-> "send_gd", _rhs |-> _rhs]
TerminalFrame == [fn |-> "terminal", pc |-> "is_open", str |-> "", thr |-> "none"]
AsyncReadFrame == [fn |-> "async_read", pc |-> "read_gd", buffer |-> NoView,
                   p_buffer_at |-> {}]

Idle(t) == frame[t].pc \in {"none", "done"}

\* thread t calls a member function
Enter(t, calls) ==
    /\ Idle(t)
    /\ \E c \in calls : frame' = [frame EXCEPT ![t] = c]
    /\ UNCHANGED <<m_fd, m_device, m_baudrates, m_opt, m_sta, os_files, os_rx,
                   send_lk, read_lk, term_lk, future, crcvars>>

\* const std::lock_guard<std::mutex> send_gd(send_lk);
AcquireSend(t) ==
    /\ frame[t].pc = "send_gd"
    /\ send_lk = NoThread
    /\ send_lk' = t
    /\ frame' = [frame EXCEPT ![t].pc =
                    IF frame[t].fn \in {"flush", "operator="} THEN "read_gd" ELSE "write"]
    /\ UNCHANGED <<m_fd, m_device, m_baudrates, m_opt, m_sta, os_files, os_rx,
                   read_lk, term_lk, future, crcvars>>

\* const std::lock_guard<std::mutex> read_gd(read_lk);
AcquireRead(t) ==
    /\ frame[t].pc = "read_gd"
    /\ read_lk = NoThread
    /\ read_lk' = t
    /\ frame' = [frame EXCEPT ![t].pc =
                    IF frame[t].fn = "flush" THEN "tcflush"
                    ELSE IF frame[t].fn = "operator=" THEN "term_gd"
                    ELSE "read"]
    /\ UNCHANGED <<m_fd, m_device, m_baudrates, m_opt, m_sta, os_files, os_rx,
                   send_lk, term_lk, future, crcvars>>

\* const std::lock_guard<std::mutex> term_gd(term_lk);
AcquireTerm(t) ==
    /\ frame[t].pc = "term_gd"
    /\ term_lk = NoThread
    /\ term_lk' = t
    /\ frame' = [frame EXCEPT ![t].pc =
                    IF frame[t].fn = "operator=" THEN "copy" ELSE "jthread"]
    /\ UNCHANGED <<m_fd, m_device, m_baudrates, m_opt, m_sta, os_files, os_rx,
                   send_lk, read_lk, future, crcvars>>

\* return ::write(m_fd, rhs.data(), rhs.size()) > 0; and the end of send_gd.
\* terminal() discards the result and goes back to std::getline
Write(t) ==
    /\ frame[t].pc = "write"
    /\ \E written \in IF ValidDescriptor(m_fd) THEN BOOLEAN ELSE {FALSE} :
          frame' = [frame EXCEPT ![t] =
                      IF @.fn = "terminal" THEN [@ EXCEPT !.pc = "getline"]
                      ELSE [@ EXCEPT !.pc = "done", !.ret = written]]
    /\ send_lk' = NoThread
    /\ UNCHANGED <<m_fd, m_device, m_baudrates, m_opt, m_sta, os_files, os_rx,
                   read_lk, term_lk, future, crcvars>>

\* sizeof(void*): the bytes of the variable p_buffer
PointerBytes == 8

\* the value of p_buffer after ::read stored the bytes in the variable itself
\* (little endian, p_buffer being nullptr before)
StoredInPointer(bytes) ==
    {i \in 0..63 : /\ (i \div 8) + 1 <= Len(bytes)
                   /\ (i % 8) \in Bits(bytes[(i \div 8) + 1])}

\* where the stack of a thread can place the local variable p_buffer
StackAddresses == {Word64(\H0000, \H7ffc, \H3a10, \H2f38), Word64(\H0000, \H7f1e, \H5c00, \H1e58)}

\* the body of operator>> under read_gd: read_avail(), ::read(m_fd, &p_buffer,
\* buffer_size), the std::string_view built from p_buffer, and the end of
\* read_gd.  The bytes ::read delivers are stored at &p_buffer, which is
\* p_buffer_at; the view is given the value of p_buffer as its address
Read(t) ==
    /\ frame[t].pc = "read"
    /\ LET buffer_size == IF ValidDescriptor(m_fd) THEN Len(os_rx) ELSE 0
           view        == [data |-> StoredInPointer(os_rx), size |-> buffer_size]
       IN  \E got \in IF buffer_size > 0 THEN {-1, buffer_size} ELSE {0},
              at \in IF buffer_size > 0 THEN StackAddresses ELSE {{}} :
              /\ os_rx' = IF got > 0 THEN <<>> ELSE os_rx
              /\ frame' = [frame EXCEPT ![t] =
                    IF got > PointerBytes
                    THEN \* ::read wrote behind the variable p_buffer
                         [@ EXCEPT !.pc = "smashed", !.p_buffer_at = at]
                    ELSE IF @.fn = "async_read"
                    THEN IF got > 0
                         THEN [@ EXCEPT !.pc = "set_value", !.buffer = view, !.p_buffer_at = at]
                         ELSE [@ EXCEPT !.pc = "yield", !.p_buffer_at = at]
                    ELSE IF got > 0
                         THEN [@ EXCEPT !.pc = "done", !.rhs_ = view, !.ret = TRUE,
                                        !.p_buffer_at = at]
                         ELSE [@ EXCEPT !.pc = "done", !.ret = FALSE, !.p_buffer_at = at]]
    /\ read_lk' = NoThread
    /\ UNCHANGED <<m_fd, m_device, m_baudrates, m_opt, m_sta, os_files,
                   send_lk, term_lk, future, crcvars>>

\* return ::tcflush(m_fd, TCIOFLUSH) != -1; and the end of read_gd and send_gd
TcFlush(t) ==
    /\ frame[t].pc = "tcflush"
    /\ os_rx' = IF ValidDescriptor(m_fd) THEN <<>> ELSE os_rx
    /\ frame' = [frame EXCEPT ![t].pc = "done", ![t].ret = ValidDescriptor(m_fd)]
    /\ read_lk' = NoThread
    /\ send_lk' = NoThread
    /\ UNCHANGED <<m_fd, m_device, m_baudrates, m_opt, m_sta, os_files,
                   term_lk, future, crcvars>>

\* the five assignments of operator= and the end of its three lock guards
Copy(t) ==
    /\ frame[t].pc = "copy"
    /\ m_device' = frame[t]._rhs.m_device
    /\ m_baudrates' = frame[t]._rhs.m_baudrates
    /\ m_fd' = frame[t]._rhs.m_fd
    /\ m_opt' = frame[t]._rhs.m_opt
    /\ m_sta' = frame[t]._rhs.m_sta
    /\ frame' = [frame EXCEPT ![t].pc = "done"]
    /\ term_lk' = NoThread
    /\ read_lk' = NoThread
    /\ send_lk' = NoThread
    /\ UNCHANGED <<os_files, os_rx, future, crcvars>>

\* if (is_open()) { ... } else { ...; return; } at the head of terminal()
TerminalIsOpen(t) ==
    /\ frame[t].pc = "is_open"
    /\ frame' = [frame EXCEPT ![t].pc = IF is_open(m_fd) THEN "term_gd" ELSE "done"]
    /\ UNCHANGED <<m_fd, m_device, m_baudrates, m_opt, m_sta, os_files, os_rx,
                   send_lk, read_lk, term_lk, future, crcvars>>

\* std::jthread thr([_this = this, _exit = &exit]() mutable { ... });
JThread(t) ==
    /\ frame[t].pc = "jthread"
    /\ frame' = [frame EXCEPT ![t].pc = "getline", ![t].thr = "started"]
    /\ UNCHANGED <<m_fd, m_device, m_baudrates, m_opt, m_sta, os_files, os_rx,
                   send_lk, read_lk, term_lk, future, crcvars>>

\* the thread of terminal(): while (!_exit) tests the pointer _exit, which is
\* &exit and never null, so the loop body is not entered and the thread ends
ReaderThread(t) ==
    /\ frame[t].fn = "terminal"
    /\ frame[t].thr = "started"
    /\ frame' = [frame EXCEPT ![t].thr = "finished"]
    /\ UNCHANGED <<m_fd, m_device, m_baudrates, m_opt, m_sta, os_files, os_rx,
                   send_lk, read_lk, term_lk, future, crcvars>>

\* std::getline(std::cin, str); if (str != "exit"s) { *this << str + "\n"; }
\* else { break; }
GetLine(t) ==
    /\ frame[t].pc = "getline"
    /\ \E str \in Lines :
          frame' = [frame EXCEPT ![t].str = str,
                                 ![t].pc = IF str # "exit" THEN "send_gd" ELSE "test_and_set"]
    /\ UNCHANGED <<m_fd, m_device, m_baudrates, m_opt, m_sta, os_files, os_rx,
                   send_lk, read_lk, term_lk, future, crcvars>>

\* exit.test_and_set();
TestAndSet(t) ==
    /\ frame[t].pc = "test_and_set"
    /\ frame' = [frame EXCEPT ![t].pc = "join"]
    /\ UNCHANGED <<m_fd, m_device, m_baudrates, m_opt, m_sta, os_files, os_rx,
                   send_lk, read_lk, term_lk, future, crcvars>>

\* the end of terminal(): ~jthread joins the thread, then term_gd is released
Join(t) ==
    /\ frame[t].pc = "join"
    /\ frame[t].thr = "finished"
    /\ frame' = [frame EXCEPT ![t].pc = "done"]
    /\ term_lk' = NoThread
    /\ UNCHANGED <<m_fd, m_device, m_baudrates, m_opt, m_sta, os_files, os_rx,
                   send_lk, read_lk, future, crcvars>>

\* the CRC engines are not in use
CrcUnused ==
    /\ pc = [t \in Threads |-> "idle"]
    /\ args = [t \in Threads |-> NoCall]
    /\ crc_code = [t \in Threads |-> {}]
    /\ _data = [t \in Threads |-> 0]
    /\ _size = [t \in Threads |-> {}]
    /\ result = [t \in Threads |-> {}]
    /\ crc8_table0 = {}
    /\ rev = NoRev
    /\ inst = NoInst

\* the descriptors a process starts with
StdStreams == [fd \in 0..2 |-> <<"stdin", "stdout", "stderr">>[fd + 1]]

\* the objects operator= is given
Others == {DefaultObject, OpenedObject(4, "/dev/ttyUSB1", 115200)}

\* the calls the threads make on one object
LockCalls ==
    {SendFrame(rhs) : rhs \in {"AT"}} \cup {ReadFrame, FlushFrame, TerminalFrame}
        \cup {AssignFrame(_rhs) : _rhs \in Others}

\* an object opened on /dev/ttyUSB0, shared by the threads
InitLocks ==
    /\ CrcUnused
    /\ m_fd = 3
    /\ m_device = "/dev/ttyUSB0"
    /\ m_baudrates = 9600
    /\ m_opt = [raw |-> TRUE, speed |-> 9600]
    /\ m_sta = {"TIOCM_DTR", "TIOCM_RTS"}
    /\ os_files = [fd \in 0..4 |-> IF fd <= 2 THEN StdStreams[fd]
                                   ELSE IF fd = 3 THEN "/dev/ttyUSB0" ELSE "/dev/ttyUSB1"]
    /\ os_rx = <<>>
    /\ send_lk = NoThread
    /\ read_lk = NoThread
    /\ term_lk = NoThread
    /\ frame = [t \in Threads |-> NoFrame]
    /\ future = NoFuture

NextLocks ==
    \E t \in Threads :
        \/ Enter(t, LockCalls)
        \/ AcquireSend(t)
        \/ AcquireRead(t)
        \/ AcquireTerm(t)
        \/ Write(t)
        \/ Read(t)
        \/ TcFlush(t)
        \/ Copy(t)
        \/ TerminalIsOpen(t)
        \/ JThread(t)
        \/ ReaderThread(t)
        \/ GetLine(t)
        \/ TestAndSet(t)
        \/ Join(t)

SpecLocks == InitLocks /\ [][NextLocks]_vars

\* the mutex thread t is about to lock
Awaited(t) ==
    IF frame[t].pc = "send_gd" THEN send_lk
    ELSE IF frame[t].pc = "read_gd" THEN read_lk
    ELSE IF frame[t].pc = "term_gd" THEN term_lk
    ELSE NoThread

\* C11: no state is reachable in which threads calling send, read, flush,
\* operator= and terminal on one object wait for ever for each other's
\* send_lk / read_lk / term_lk: there is no set of threads each of which is
\* about to lock a mutex that another thread of the set owns.
C11_DeadlockFree ==
    ~ \E D \in SUBSET Threads :
         /\ D # {}
         /\ \A t \in D : Awaited(t) \in D \ {t}

(***************************************************************************)
(* open() and close(), called one after the other on one object.           *)
(***************************************************************************)
\* descriptors a process may have open at a time (RLIMIT_NOFILE)
OpenMax == 6

\* the object as a record of its data members
Object == [m_device |-> m_device, m_baudrates |-> m_baudrates, m_fd |-> m_fd,
           m_opt |-> m_opt, m_sta |-> m_sta]

\* what ::open can return: -1, or the lowest descriptor that is not in use
OpenOutcomes(files) ==
    {-1} \cup {fd \in 0..(OpenMax - 1) :
                 /\ fd \notin DOMAIN files
                 /\ \A lower \in 0..(fd - 1) : lower \in DOMAIN files}

\* the descriptor table after ::open returned fd for the device dev
Opened(files, fd, dev) ==
    IF fd < 0 THEN files
    ELSE [d \in DOMAIN files \cup {fd} |-> IF d = fd THEN dev ELSE files[d]]

\* the descriptor table after the OS released fd
Released(files, fd) == [d \in DOMAIN files \ {fd} |-> files[d]]

\* open() never takes the early return
AlreadyOpened_never(obj) == FALSE

\* if (is_open() != false) at the head of open()
AlreadyOpened(obj) == is_open(obj.m_fd) # FALSE

\* bool open(const T& _dev, const std::size_t& _baud) on the object obj, ::open
\* returning fd: the object and the descriptor table it leaves, whether it
\* flushed the port, and the value it returns
open(obj, files, _dev, _baud, fd) ==
    IF AlreadyOpened(obj)
    THEN [obj |-> obj, files |-> files, flushed |-> FALSE, ret |-> TRUE]
    ELSE LET stored == IF obj.m_device = "" \/ obj.m_baudrates = 0
                       THEN [obj EXCEPT !.m_device = _dev, !.m_baudrates = _baud]
                       ELSE obj
             after  == Opened(files, fd, stored.m_device)
         IN  IF fd <= 0
             THEN [obj |-> [stored EXCEPT !.m_fd = fd], files |-> after,
                   flushed |-> FALSE, ret |-> FALSE]
             ELSE [obj |-> [stored EXCEPT !.m_fd = fd,
                                          !.m_opt = [raw |-> TRUE, speed |-> stored.m_baudrates],
                                          !.m_sta = {"TIOCM_DTR", "TIOCM_RTS"}],
                   files |-> after, flushed |-> TRUE, ret |-> TRUE]

\* the caller's record of a finished call of open()
OpenFrame(_dev, _baud, was_open, ret) ==
    [fn |-> "open", pc |-> "done", _dev |-> _dev, _baud |-> _baud,
     was_open |-> was_open, ret |-> ret]

\* the caller's record of a finished call of close()
CloseFrame(was_open, ret) ==
    [fn |-> "close", pc |-> "done", was_open |-> was_open, ret |-> ret]

\* thread t calls open(_dev, _baud)
Open(t) ==
    /\ Idle(t)
    /\ \E _dev \in Devices, _baud \in Bauds, fd \in OpenOutcomes(os_files) :
          LET o == open(Object, os_files, _dev, _baud, fd)
          IN  /\ m_device' = o.obj.m_device
              /\ m_baudrates' = o.obj.m_baudrates
              /\ m_fd' = o.obj.m_fd
              /\ m_opt' = o.obj.m_opt
              /\ m_sta' = o.obj.m_sta
              /\ os_files' = o.files
              /\ os_rx' = IF o.flushed THEN <<>> ELSE os_rx
              /\ frame' = [frame EXCEPT ![t] =
                              OpenFrame(_dev, _baud, AlreadyOpened(Object), o.ret)]
    /\ UNCHANGED <<send_lk, read_lk, term_lk, future, crcvars>>

\* what ::close(m_fd) can do: return 0 with the descriptor released, or
\* return -1 (EINTR, EIO) with the descriptor released or still open
CloseOutcomes == {[rc |-> 0, released |-> TRUE], [rc |-> -1, released |-> TRUE],
                  [rc |-> -1, released |-> FALSE]}

\* thread t calls close()
Close(t) ==
    /\ Idle(t)
    /\ IF is_open(m_fd) = FALSE
       THEN /\ frame' = [frame EXCEPT ![t] = CloseFrame(FALSE, TRUE)]
            /\ UNCHANGED <<m_fd, os_files>>
       ELSE \E c \in IF ValidDescriptor(m_fd) THEN CloseOutcomes
                     ELSE {[rc |-> -1, released |-> FALSE]} :
               /\ m_fd' = c.rc
               /\ os_files' = IF c.released THEN Released(os_files, m_fd) ELSE os_files
               /\ frame' = [frame EXCEPT ![t] = CloseFrame(TRUE, c.rc = 0)]
    /\ UNCHANGED <<m_device, m_baudrates, m_opt, m_sta, os_rx,
                   send_lk, read_lk, term_lk, future, crcvars>>

\* std::size_t m_baudrates has no initialiser
IndeterminateBauds == {0, 9600}

\* the object after serialib() = default, or after serialib(_dev, _baud), in a
\* process that has its standard streams open or has closed stdin
InitOpen ==
    /\ CrcUnused
    /\ \E files \in {StdStreams, Released(StdStreams, 0)} :
          \/ /\ m_device = ""
             /\ m_baudrates \in IndeterminateBauds
             /\ m_fd = -1
             /\ m_opt = NoOpt
             /\ m_sta = StatusBits
             /\ os_files = files
          \/ \E _dev \in Devices, _baud \in Bauds, fd \in OpenOutcomes(files) :
                LET o == open([DefaultObject EXCEPT !.m_device = _dev, !.m_baudrates = _baud],
                              files, _dev, _baud, fd)
                IN  /\ m_device = o.obj.m_device
                    /\ m_baudrates = o.obj.m_baudrates
                    /\ m_fd = o.obj.m_fd
                    /\ m_opt = o.obj.m_opt
                    /\ m_sta = o.obj.m_sta
                    /\ os_files = o.files
    /\ os_rx = <<>>
    /\ send_lk = NoThread
    /\ read_lk = NoThread
    /\ term_lk = NoThread
    /\ frame = [t \in Threads |-> NoFrame]
    /\ future = NoFuture

NextOpen == Open(1) \/ Close(1)

SpecOpen == InitOpen /\ [][NextOpen]_vars

\* the descriptors the OS has open on a serial device for the object
Held == {fd \in DOMAIN os_files : os_files[fd] \in Devices}

\* C12: after any sequence of open() and close() calls, each succeeding or
\* failing at the OS level, is_open() is true exactly when the object holds
\* a descriptor the OS still has open for it: the descriptor it reports open
\* is open, and no descriptor stays open when it reports false.
C12_IsOpenIffDescriptorOpen ==
    /\ is_open(m_fd) => m_fd \in Held
    /\ ~is_open(m_fd) => Held = {}

\* C13: open(dev, baud) on an object that is not open opens the device dev
\* at the rate baud, whatever device the object had before.
C13_OpensItsArgument ==
    \A t \in Threads :
        (frame[t].fn = "open" /\ ~frame[t].was_open /\ frame[t].ret) =>
            /\ m_fd \in DOMAIN os_files
            /\ os_files[m_fd] = frame[t]._dev
            /\ m_opt.speed = frame[t]._baud

\* C14: open() on an object that is open returns true and leaves the
\* descriptor, the device name, the baud rate, the line settings and the
\* descriptors of the OS as they were, whatever device it is called with.
C14_OpenOnOpenIsNoOp ==
    [][(is_open(m_fd) /\ frame'[1].fn = "open") =>
          /\ frame'[1].ret
          /\ UNCHANGED <<m_fd, m_device, m_baudrates, m_opt, m_sta, os_files, os_rx>>]_vars

C14_Witness ==
    /\ frame[1].fn = "open"
    /\ frame[1].was_open
    /\ frame[1].ret
    /\ frame[1]._dev # m_device
    /\ is_open(m_fd)
    /\ os_files[m_fd] = m_device

(***************************************************************************)
(* async_read(): a detached thread polls operator>> and fulfils a promise. *)
(***************************************************************************)
\* most bytes waiting in the input queue of the port
MaxRx == 2

\* std::promise<T> pms; std::future<T> ftr { pms.get_future() }; std::thread
\* thr(...); thr.detach(); return ftr;  frame[t] is the detached thread
AsyncRead(t) ==
    /\ frame[t].pc = "none"
    /\ future = NoFuture
    /\ future' = [state |-> "pending", value |-> NoView]
    /\ frame' = [frame EXCEPT ![t] = AsyncReadFrame]
    /\ UNCHANGED <<m_fd, m_device, m_baudrates, m_opt, m_sta, os_files, os_rx,
                   send_lk, read_lk, term_lk, crcvars>>

\* while (!(*_this >> buffer)) { std::this_thread::yield(); }
Yield(t) ==
    /\ frame[t].pc = "yield"
    /\ frame' = [frame EXCEPT ![t].pc = "read_gd"]
    /\ UNCHANGED <<m_fd, m_device, m_baudrates, m_opt, m_sta, os_files, os_rx,
                   send_lk, read_lk, term_lk, future, crcvars>>

\* _pms.set_value(buffer);
SetValue(t) ==
    /\ frame[t].pc = "set_value"
    /\ future' = [state |-> "ready", value |-> frame[t].buffer]
    /\ frame' = [frame EXCEPT ![t].pc = "done"]
    /\ UNCHANGED <<m_fd, m_device, m_baudrates, m_opt, m_sta, os_files, os_rx,
                   send_lk, read_lk, term_lk, crcvars>>

\* the bytes the device sends
RxBytes == {49, 128}

\* the device delivers a byte to the input queue of the port
Arrive ==
    /\ Len(os_rx) < MaxRx
    /\ \E byte \in RxBytes : os_rx' = Append(os_rx, byte)
    /\ UNCHANGED <<m_fd, m_device, m_baudrates, m_opt, m_sta, os_files,
                   send_lk, read_lk, term_lk, frame, future, crcvars>>

NextAsync ==
    \/ Arrive
    \/ AsyncRead(1)
    \/ Enter(2, {ReadFrame, FlushFrame})
    \/ \E t \in Threads :
          \/ AcquireSend(t)
          \/ AcquireRead(t)
          \/ Read(t)
          \/ TcFlush(t)
          \/ Yield(t)
          \/ SetValue(t)

SpecAsync == InitLocks /\ [][NextAsync]_vars

\* C15: the future of async_read() becomes ready only after a read on the
\* port succeeded and then carries the data of that read: its value is a
\* view of the bytes ::read delivered, that is of the storage they were
\* written to, and of that many bytes.
C15_FutureCarriesFirstRead ==
    \A t \in Threads :
        (frame[t].fn = "async_read" /\ future.state = "ready") =>
            /\ future.value.size > 0
            /\ future.value.data = frame[t].p_buffer_at

(***************************************************************************)
(* The table builders, one entry at a time.                                *)
(***************************************************************************)
\* the calls of the builders the three catalogues make
TableBuilds ==
    {[fn |-> "generateCRCTable", bits |-> TypeBits[crc_gen_params[T].V],
      polynomial |-> crc_gen_params[T].polynomial,
      ref_in |-> crc_gen_params[T].ref_in, ref_out |-> crc_gen_params[T].ref_out] :
        T \in CRCTypes}
    \cup {[fn |-> "authlib_generateCRCTable", bits |-> 8,
           polynomial |-> initCRCTable_args[T][1],
           ref_in |-> initCRCTable_args[T][2], ref_out |-> initCRCTable_args[T][3]] :
             T \in crc_types}
    \cup {[fn |-> "generateCRC8Table", bits |-> 8,
           polynomial |-> initCRC8Table_args[T][1],
           ref_in |-> initCRC8Table_args[T][2], ref_out |-> initCRC8Table_args[T][3]] :
             T \in crc8_types}

\* the values of byte the outer loop of a builder takes
iota_view(fn) == IF fn = "generateCRC8Table" THEN 1..255 ELSE 0..255

\* the table a call of a builder returns
BuiltTable(b, table0) ==
    IF b.fn = "generateCRCTable"
    THEN generateCRCTable(b.bits, b.polynomial, b.ref_in, b.ref_out)
    ELSE IF b.fn = "authlib_generateCRCTable"
    THEN authlib_generateCRCTable(b.bits, b.polynomial, b.ref_in, b.ref_out)
    ELSE generateCRC8Table(b.polynomial, b.ref_in, b.ref_out, table0)

\* the builder has returned: the caller looks at crc_table[byte]
BuildEntry ==
    /\ inst.pc = "build"
    /\ inst' = [inst EXCEPT !.pc = "built",
                            !.written = inst.byte \in iota_view(inst.build.fn),
                            !.entry = BuiltTable(inst.build, crc8_table0)[inst.byte]]
    /\ UNCHANGED <<pc, args, crc_code, _data, _size, result, crc8_table0, rev, svars>>

InitTable ==
    /\ InitThreads({}, Calls)
    /\ rev = NoRev
    /\ PortUnused
    /\ \E build \in TableBuilds, byte \in 0..255 :
          inst = [pc |-> "build", build |-> build, byte |-> byte,
                  written |-> FALSE, entry |-> {}]

NextTable == BuildEntry

SpecTable == InitTable /\ [][NextTable]_vars

\* the bits of a, a value of n bits, in the opposite order
Reflected(n, a) == {i \in 0..(n - 1) : (n - 1 - i) \in a}

RECURSIVE ExactDivision(_, _, _, _)
\* k times: shift the register of width bits left by one, XOR the polynomial
\* in when the bit shifted out was 1
ExactDivision(width, polynomial, crc, k) ==
    IF k = 0 THEN crc
    ELSE ExactDivision(width, polynomial,
            IF (width - 1) \in crc
            THEN {i \in 0..(width - 1) : ((i - 1) \in crc) # (i \in polynomial)}
            ELSE {i \in 0..(width - 1) : (i - 1) \in crc},
            k - 1)

\* the table entry of byte in arithmetic of exactly width bits: seed, width
\* division steps, reflection of the result iff ref_out
ExactEntry(width, polynomial, ref_in, ref_out, byte) ==
    LET seed == IF ref_in THEN Reflected(8, Bits(byte)) ELSE Bits(byte)
        crc  == ExactDivision(width, polynomial, seed, width)
    IN  IF ref_out THEN Reflected(width, crc) ELSE crc

\* C16: for every table builder and every byte b in 0..255, table[b] is
\* written and equals the entry computed in arithmetic of exactly width bits
\* (seed, width division steps on the top bit, reflection iff ref_out).
C16_TableEntriesExact ==
    inst.pc = "built" =>
        /\ inst.written
        /\ inst.entry = ExactEntry(inst.build.bits, inst.build.polynomial,
                                   inst.build.ref_in, inst.build.ref_out, inst.byte)

(***************************************************************************)
(* The bit-at-a-time reference CRC the engines are compared with.          *)
(***************************************************************************)
RECURSIVE ReferenceFold(_, _, _, _, _)
\* the register after the bytes of data from position loop.k on: each byte,
\* bit-reversed iff ref_in, is XORed into the top byte of the register and
\* followed by one division step per bit
ReferenceFold(width, polynomial, ref_in, data, loop) ==
    IF loop.k > Len(data) THEN loop.crc
    ELSE LET byte == IF ref_in THEN Reflected(8, Bits(data[loop.k])) ELSE Bits(data[loop.k])
             top  == {i \in 0..(width - 1) : (i \in loop.crc) # ((i - (width - 8)) \in byte)}
         IN  ReferenceFold(width, polynomial, ref_in, data,
                [k |-> loop.k + 1, crc |-> ExactDivision(width, polynomial, top, 8)])

\* the CRC of data for a parameter set p of width bits: start from init,
\* fold the bytes, bit-reverse the register iff ref_out, XOR xor_out
ReferenceCRC(width, p, data) ==
    LET crc == ReferenceFold(width, p.polynomial, p.ref_in, data, [k |-> 1, crc |-> p.init])
    IN  Xor(IF p.ref_out THEN Reflected(width, crc) ELSE crc, p.xor_out)

\* C17: for every parameter set with ref_in = ref_out and every non-empty
\* buffer, what the generic engine returns equals the bit-at-a-time
\* reference CRC of the buffer for that parameter set.
C17_SymmetricMatchesReference ==
    \A t \in Threads :
        (/\ pc[t] = "done"
         /\ args[t].fn = "crc_gen"
         /\ Len(args[t].data) > 0
         /\ crc_gen_params[args[t].T].ref_in = crc_gen_params[args[t].T].ref_out) =>
            result[t] = ReferenceCRC(WidthOf(args[t]), crc_gen_params[args[t].T], args[t].data)

(***************************************************************************)
(* generateCRCCode instantiated with ref_in different from ref_out.        *)
(***************************************************************************)
DirectCalls ==
    {[fn |-> "generateCRCCode", T |-> T, overload |-> "ptr_size", data |-> d] :
        T \in DOMAIN generateCRCCode_args, d \in Buffers}

InitDirect ==
    /\ InitThreads({1}, DirectCalls)
    /\ rev = NoRev
    /\ inst = NoInst
    /\ PortUnused

SpecDirect == InitDirect /\ [][Next]_vars

\* C18: the two reflection flags are supported independently: for a
\* parameter set with ref_in # ref_out and every non-empty buffer, what the
\* engine returns equals the bit-at-a-time reference CRC with the input
\* bytes bit-reversed iff ref_in and the final register iff ref_out.
C18_AsymmetricMatchesReference ==
    \A t \in Threads :
        (/\ pc[t] = "done"
         /\ args[t].fn = "generateCRCCode"
         /\ Len(args[t].data) > 0
         /\ TemplateArgs(args[t]).ref_in # TemplateArgs(args[t]).ref_out) =>
            result[t] = ReferenceCRC(WidthOf(args[t]), TemplateArgs(args[t]), args[t].data)

(***************************************************************************)
(* The index of the table lookup.                                          *)
(***************************************************************************)
\* C19: at every fold step of every variant on a non-empty buffer the index
\* given to crc_table.at() lies in 0..255, so that at() does not throw
\* inside the noexcept function: for the index crc & 0xff, for the index
\* crc >> (width - 8), and for the int register of the 8-bit engines.
C19_IndexInRange ==
    \A t \in Threads :
        Len(args[t].data) > 0 =>
            /\ pc[t] # "terminate"
            /\ (pc[t] = "do" /\ _data[t] < Len(args[t].data)) =>
                  TableIndex(args[t], crc_code[t], args[t].data[_data[t] + 1]) \subseteq 0..7

C19_Witness ==
    \E t \in Threads :
        /\ pc[t] = "do"
        /\ args[t].fn = "crc_gen"
        /\ args[t].T = "crc16_ccitt_false"
        /\ args[t].data = CheckString
        /\ _data[t] = 4
        /\ crc_code[t] \cap 8..15 # {}
        /\ TableIndex(args[t], crc_code[t], args[t].data[5]) \subseteq 0..7

(***************************************************************************)
(* The 8-bit engine of authlib.hpp beside the generic engine.              *)
(***************************************************************************)
\* the variant of enum CRCTypes that names the same CRC as a variant of
\* authlib.hpp's enum crc_types
CRCTypeOf == [T \in crc_types |-> IF T = "crc8_ccitt" THEN "crc8" ELSE T]

\* thread 1 calls authlib.hpp's crc_gen and thread 2 the crc_gen of
\* serialib.hpp, for the same CRC and on the same buffer
PairedCalls ==
    {f \in [Threads -> Calls] :
        /\ f[1].fn = "authlib_crc_gen"
        /\ f[2] = [f[1] EXCEPT !.fn = "crc_gen", !.T = CRCTypeOf[f[1].T]]}

InitPair ==
    /\ args \in PairedCalls
    /\ pc = [t \in Threads |-> "call"]
    /\ crc_code = [t \in Threads |-> {}]
    /\ _data = [t \in Threads |-> 0]
    /\ _size = [t \in Threads |-> {}]
    /\ result = [t \in Threads |-> {}]
    /\ crc8_table0 = {}
    /\ rev = NoRev
    /\ inst = NoInst
    /\ PortUnused

SpecPair == InitPair /\ [][Next]_vars

\* C20: for each of the ten 8-bit variants and every non-empty buffer, the
\* 8-bit engine of authlib.hpp and the generic engine of serialib.hpp return
\* the same value.
C20_EnginesAgree ==
    \A t \in Threads, u \in Threads :
        (/\ pc[t] = "done" /\ pc[u] = "done"
         /\ args[t].fn = "authlib_crc_gen"
         /\ args[u].fn = "crc_gen"
         /\ args[u].T = CRCTypeOf[args[t].T]
         /\ args[u].data = args[t].data
         /\ Len(args[t].data) > 0) => result[t] = result[u]

C20_Witness ==
    /\ pc[1] = "done" /\ pc[2] = "done"
    /\ args[1].fn = "authlib_crc_gen" /\ args[1].T = "crc8_itu"
    /\ args[2].fn = "crc_gen" /\ args[2].T = "crc8_itu"
    /\ args[1].data = CheckString /\ args[2].data = CheckString
    /\ result[1] = Bits(\Ha1)
    /\ result[2] = Bits(\Ha1)

(***************************************************************************)
(* A frame checked by its receiver: the sender computes the checksum of a  *)
(* buffer, one bit of the buffer is flipped on the line, the receiver      *)
(* computes the checksum of what it got.                                   *)
(***************************************************************************)
\* the payloads sent
FrameBuffers == UNION {[1..k -> {0, 255}] : k \in 1..MaxLen}

\* the sender's calls of crc_gen of serialib.hpp and of authlib.hpp
FrameCalls ==
    {[fn |-> "crc_gen", T |-> T, overload |-> "ptr_size", data |-> d] :
        T \in CRCTypes, d \in FrameBuffers}
    \cup {[fn |-> "authlib_crc_gen", T |-> T, overload |-> "ptr_size", data |-> d] :
            T \in crc_types, d \in FrameBuffers}

\* the buffer d with bit k of its byte i flipped
Flipped(d, i, k) ==
    [d EXCEPT ![i] = Val({b \in 0..7 : (b \in Bits(d[i])) # (b = k)})]

\* the sender has its checksum; the receiver, thread 2, gets the buffer with
\* one bit flipped and calls the same crc_gen on it
Corrupt ==
    /\ pc[1] = "done"
    /\ pc[2] = "idle"
    /\ \E i \in 1..Len(args[1].data), k \in 0..7 :
          args' = [args EXCEPT ![2] = [args[1] EXCEPT !.data = Flipped(args[1].data, i, k)]]
    /\ pc' = [pc EXCEPT ![2] = "call"]
    /\ UNCHANGED <<crc_code, _data, _size, result, crc8_table0, rev, inst, svars>>

InitFrame ==
    /\ args \in {[t \in Threads |-> IF t = 1 THEN c ELSE NoCall] : c \in FrameCalls}
    /\ pc = [t \in Threads |-> IF t = 1 THEN "call" ELSE "idle"]
    /\ crc_code = [t \in Threads |-> {}]
    /\ _data = [t \in Threads |-> 0]
    /\ _size = [t \in Threads |-> {}]
    /\ result = [t \in Threads |-> {}]
    /\ crc8_table0 = {}
    /\ rev = NoRev
    /\ inst = NoInst
    /\ PortUnused

\* the buffers are not empty: the loop never reads behind them
NextFrame ==
    \/ Corrupt
    \/ \E t \in Threads : Call(t) \/ Fold(t) \/ Return(t)

SpecFrame == InitFrame /\ [][NextFrame]_vars

\* the buffers d and e differ in exactly one bit
OneBitApart(d, e) ==
    /\ Len(d) = Len(e)
    /\ Cardinality({<<i, b>> \in (1..Len(d)) \X (0..7) :
                        (b \in Bits(d[i])) # (b \in Bits(e[i]))}) = 1

\* C21: for every variant of the two catalogues and every non-empty buffer
\* D, the checksum of D with exactly one bit flipped differs from the
\* checksum of D, so that the receiver rejects the corrupted frame.
C21_SingleBitErrorDetected ==
    \A t \in Threads, u \in Threads :
        (/\ pc[t] = "done" /\ pc[u] = "done"
         /\ args[t].fn \in {"crc_gen", "authlib_crc_gen"}
         /\ args[u].fn = args[t].fn
         /\ args[u].T = args[t].T
         /\ Len(args[t].data) > 0
         /\ OneBitApart(args[t].data, args[u].data)) => result[t] # result[u]

C21_Witness ==
    /\ pc[1] = "done" /\ pc[2] = "done"
    /\ args[1].fn = "crc_gen" /\ args[1].T = "crc32"
    /\ args[2].fn = "crc_gen" /\ args[2].T = "crc32"
    /\ args[1].data = <<0, 255>>
    /\ args[2].data = Flipped(<<0, 255>>, 2, 0)
    /\ result[1] = Word32(\H6cdb, \Hfd72)
    /\ result[2] = Word32(\H1bdc, \Hcde4)

(***************************************************************************)
(* terminal() and its reader thread.                                       *)
(***************************************************************************)
\* exit.test_and_set() has been executed by the call of terminal() of thread t
ExitFlagSet(t) == frame[t].pc \in {"join", "done"}

\* C22: while terminal() runs on an open port its reader thread keeps
\* polling until the user enters 'exit': the reader thread has stopped only
\* if the exit flag was set before; and the line 'exit' is never the one
\* being written to the port.
C22_ReaderRunsUntilExit ==
    \A t \in Threads :
        frame[t].fn = "terminal" =>
            /\ frame[t].thr = "finished" => ExitFlagSet(t)
            /\ frame[t].pc = "write" => frame[t].str # "exit"

====
